---- MODULE Spec2Model ----
(***************************************************************************)
(* Client-side interaction controller of the MNL-AI website (src/script.js) *)
(* as a state machine: mobile menu, success modal, contact form.           *)
(*                                                                         *)
(* One action is one dispatched DOM event (all listeners on its            *)
(* propagation path, in registration order) or one resumption of the       *)
(* suspended async submit handler.  The event loop is single threaded, so  *)
(* each of them runs to completion.                                        *)
(*                                                                         *)
(* Page layout taken for granted (the markup is not part of the sources):  *)
(* #mobile-toggle, #nav-menu and the .nav-link anchors are inside #navbar; *)
(* #success-modal with #modal-close / #modal-ok is outside #navbar; the    *)
(* form's fields have empty default values.                                *)
(***************************************************************************)
EXTENDS Integers, Sequences, FiniteSets, TLC

VARIABLES
  dom,          \* DOM state the handlers read and write
  inflight,     \* suspended submit handlers: captured originalContent + POST body
  posts,        \* number of fetch('/contact') calls issued
  unhandled,    \* a submit handler's promise rejected (exception escaped)
  submitEvents, \* observer: submit events delivered
  passedEvents, \* observer: submit events whose data passed validateForm
  successSeen,  \* observer: a response with success === true was processed
  lastEvent,    \* observer: the event handled by the last step
  page,         \* what the markup and the browser give: reveal elements, loading screen, reduced motion
  phase,        \* "parsing" (before DOMContentLoaded), "ready" (app.init ran), "loaded" (load fired)
  loadListener, \* setupLoadingScreen registered its load listener
  loadingHidden,\* #loading-screen has class 'hidden'
  revealed,     \* elements with class 'revealed'
  observerCreated, \* setupScrollAnimations constructed its IntersectionObserver
  observed,     \* elements that observer observes
  timers,       \* pending setTimeout callbacks: kind, element, milliseconds left
  scheduled,    \* observer: reveal timers the intersection callback set, per element (2 = more than one)
  waited,       \* observer: milliseconds passed since an element's first intersection
  cpage,        \* counters' page: .stat-number texts, .hero-stats present, IntersectionObserver present
  cs,           \* setupCounterAnimations' closure: hasAnimated, observer, trigger timers, counters
  clock,        \* Date.now(), in milliseconds since app.init
  features,     \* which feature root elements the page has
  boot,         \* app.init: its outcome and the modules that registered behaviour
  th,           \* theme: app.theme, data-theme, localStorage, icon, pending pulses
  sc,           \* scroll: window.scrollY, navbar classes and style, the debounce timer
  srv           \* server: the request received and the response sent

uiVars == <<dom, inflight, posts, unhandled, submitEvents, passedEvents, successSeen, lastEvent>>

revealVars ==
  <<page, phase, loadListener, loadingHidden, revealed, observerCreated, observed, timers,
    scheduled, waited>>

counterVars == <<cpage, cs, clock>>

bootVars == <<features, boot>>

themeVars == <<th>>

scrollVars == <<sc>>

serverVars == <<srv>>

vars == <<uiVars, revealVars, counterVars, bootVars, themeVars, scrollVars, serverVars>>

\* Bound on the number of submit events of one run.
MaxSubmits == 3

(***************************************************************************)
(* Strings are sequences of one-character strings, so that .length and the *)
(* email pattern are computed and not assumed.                             *)
(***************************************************************************)
Empty == << >>

Chars(n) == [i \in 1..n |-> "x"]

NameValues == { Empty, <<"J">>, <<"J", "o">> }

EmailValues ==
  { Empty,
    <<"a", "@", "b", ".", "c">>,
    <<"a", "b", ".", "c">>,
    <<"a", "@", "b">>,
    <<"a", " ", "@", "b", ".", "c">>,
    <<"a", "@", "b", ".">> }

BusinessValues == { Empty, <<"A">>, <<"A", "c">> }

MessageValues == { Empty, Chars(9), Chars(10) }

AllForms ==
  [name : NameValues, email : EmailValues, business : BusinessValues, message : MessageValues]

FormDefaults == [name |-> Empty, email |-> Empty, business |-> Empty, message |-> Empty]

GoodEmail == <<"a", "@", "b", ".", "c">>

\* What the user is seen to type in the interaction model: one form per rule
\* outcome (everything valid, business left empty, one rule violated, blank).
FormInputs ==
  { [name |-> <<"J", "o">>, email |-> GoodEmail, business |-> <<"A", "c">>, message |-> Chars(10)],
    [name |-> <<"J", "o">>, email |-> GoodEmail, business |-> Empty, message |-> Chars(10)],
    [name |-> Empty, email |-> GoodEmail, business |-> <<"A", "c">>, message |-> Chars(10)],
    [name |-> <<"J", "o">>, email |-> <<"a", "b", ".", "c">>, business |-> <<"A", "c">>, message |-> Chars(10)],
    [name |-> <<"J", "o">>, email |-> GoodEmail, business |-> <<"A", "c">>, message |-> Chars(9)],
    FormDefaults }


(***************************************************************************)
(* Click targets and keys.  "successModal" is a click on the dimmed        *)
(* backdrop itself (e.target === successModal); "modalContent" is any      *)
(* other node inside the modal; "navbar" is a node of the navbar that is   *)
(* neither the toggle nor a link; "page" is everything else.               *)
(***************************************************************************)
Targets ==
  { "mobileToggle", "navLink", "navbar", "modalClose", "modalOk", "successModal",
    "modalContent", "page" }

Keys == { "Escape", "Tab" }

navbarContains(target) == target \in { "mobileToggle", "navLink", "navbar" }

modalContains(target) == target \in { "modalClose", "modalOk", "successModal", "modalContent" }

(***************************************************************************)
(* Navigation (setupNavigation)                                            *)
(***************************************************************************)
\* toggleClick without the scroll-lock assignment
toggleClickNoLock(d) ==
  LET isActive == ~d.toggleActive IN
  [d EXCEPT !.toggleActive = isActive,
            !.menuActive = ~d.menuActive,
            !.ariaExpanded = IF isActive THEN "true" ELSE "false"]

\* classList.toggle on both elements, overflow and aria-expanded from isActive
toggleClick(d) ==
  LET isActive == ~d.toggleActive IN
  [d EXCEPT !.toggleActive = isActive,
            !.menuActive = ~d.menuActive,
            !.overflow = IF isActive THEN "hidden" ELSE "",
            !.ariaExpanded = IF isActive THEN "true" ELSE "false"]

\* closeMenu without the aria-expanded update
closeMenuNoAria(d) ==
  [d EXCEPT !.toggleActive = FALSE,
            !.menuActive = FALSE,
            !.overflow = ""]

\* the four statements shared by the three closing listeners
closeMenu(d) ==
  [d EXCEPT !.toggleActive = FALSE,
            !.menuActive = FALSE,
            !.overflow = "",
            !.ariaExpanded = "false"]

navLinkClick(d) == closeMenu(d)

documentClick(d, target) == IF ~navbarContains(target) THEN closeMenu(d) ELSE d

navKeydown(d, key) == IF key = "Escape" /\ d.menuActive THEN closeMenu(d) ELSE d

(***************************************************************************)
(* Modal (setupModalHandlers)                                              *)
(***************************************************************************)
\* removes the class and the scroll lock (the focus() call on the submit
\* button changes none of the state kept here)
closeModal(d) == [d EXCEPT !.modalActive = FALSE, !.overflow = ""]

\* modalClick without the e.target === successModal test
modalClickAnyTarget(d, target) == closeModal(d)

modalClick(d, target) == IF target = "successModal" THEN closeModal(d) ELSE d

modalKeydown(d, key) == IF key = "Escape" /\ d.modalActive THEN closeModal(d) ELSE d

(***************************************************************************)
(* Event dispatch: listeners on the target, then on its ancestors, then on *)
(* document; listeners of one node in registration order (setupNavigation  *)
(* runs before setupModalHandlers in app.init).                            *)
(***************************************************************************)
targetListeners(d, target) ==
  CASE target = "mobileToggle" -> toggleClick(d)
    [] target = "navLink" -> navLinkClick(d)
    [] target \in { "modalClose", "modalOk" } -> closeModal(d)
    [] OTHER -> d

dispatchClick(d, target) ==
  LET d1 == targetListeners(d, target)
      d2 == IF modalContains(target) THEN modalClick(d1, target) ELSE d1
  IN documentClick(d2, target)

dispatchKeydown(d, key) == modalKeydown(navKeydown(d, key), key)

(***************************************************************************)
(* Contact form (setupContactForm)                                         *)
(***************************************************************************)
\* [^\s@]
notSpaceOrAt(c) == c \notin { " ", "@" }

allNotSpaceOrAt(s) == \A i \in DOMAIN s : notSpaceOrAt(s[i])

\* /^[^\s@]+@[^\s@]+\.[^\s@]+$/.test(s)
emailRegexTest(s) ==
  \E i, j \in 1..Len(s) :
    /\ s[i] = "@"
    /\ s[j] = "."
    /\ 1 < i /\ i + 1 < j /\ j < Len(s)
    /\ allNotSpaceOrAt(SubSeq(s, 1, i - 1))
    /\ allNotSpaceOrAt(SubSeq(s, i + 1, j - 1))
    /\ allNotSpaceOrAt(SubSeq(s, j + 1, Len(s)))

NameError == "Name must be at least 2 characters long"
EmailError == "Please enter a valid email address"
BusinessError == "Business name must be at least 2 characters long"
MessageError == "Message must be at least 10 characters long"

MinNameLen == 2
MinBusinessLen == 2
MinMessageLen == 10

\* validateForm without the email rule
validateFormNoEmailRule(data) ==
  (IF data.name = Empty \/ Len(data.name) < MinNameLen THEN <<NameError>> ELSE << >>)
  \o (IF data.business = Empty \/ Len(data.business) < MinBusinessLen
        THEN <<BusinessError>> ELSE << >>)
  \o (IF data.message = Empty \/ Len(data.message) < MinMessageLen
        THEN <<MessageError>> ELSE << >>)

\* errors.push(...) under each of the four ifs, in source order.  !data.x is
\* true of the empty string.
validateForm(data) ==
  (IF data.name = Empty \/ Len(data.name) < MinNameLen THEN <<NameError>> ELSE << >>)
  \o (IF data.email = Empty \/ ~emailRegexTest(data.email) THEN <<EmailError>> ELSE << >>)
  \o (IF data.business = Empty \/ Len(data.business) < MinBusinessLen
        THEN <<BusinessError>> ELSE << >>)
  \o (IF data.message = Empty \/ Len(data.message) < MinMessageLen
        THEN <<MessageError>> ELSE << >>)

\* removes every .form-error element, then appends one per error
showErrors(d, errors) == [d EXCEPT !.formErrors = errors]

OriginalContent == "<span>Send Message</span>"
SendingContent == "<span>Sending...</span>"

\* submitHandler without the return after showErrors(errors)
submitHandlerNoReturn(d) ==
  LET cleared == [d EXCEPT !.formErrors = << >>]
      data == d.fields
      errors == validateForm(data)
      shown == IF Len(errors) > 0 THEN showErrors(cleared, errors) ELSE cleared
  IN [dom |-> [shown EXCEPT !.submitDisabled = TRUE,
                            !.submitContent = SendingContent,
                            !.submitOpacity = "0.7"],
      fetch |-> TRUE,
      originalContent |-> d.submitContent, body |-> data]

\* The submit listener up to its first await.  Returns the new DOM and
\* whether fetch was called; originalContent is read before the button is
\* relabelled.
submitHandler(d) ==
  LET cleared == [d EXCEPT !.formErrors = << >>]
      data == d.fields
      errors == validateForm(data)
  IN IF Len(errors) > 0
       THEN [dom |-> showErrors(cleared, errors), fetch |-> FALSE,
             originalContent |-> d.submitContent, body |-> data]
       ELSE [dom |-> [cleared EXCEPT !.submitDisabled = TRUE,
                                     !.submitContent = SendingContent,
                                     !.submitOpacity = "0.7"],
             fetch |-> TRUE,
             originalContent |-> d.submitContent, body |-> data]

(***************************************************************************)
(* Responses of the POST.  kind "reject": fetch rejected with an error     *)
(* whose message is msg.  kind "http": a response arrived; json says       *)
(* whether response.json() parses, success / error are the body's fields   *)
(* (error "" when the body has none).  The handler never reads status.     *)
(***************************************************************************)
Reject(m) ==
  [kind |-> "reject", status |-> 0, json |-> FALSE, success |-> FALSE, error |-> "", msg |-> m]

Http(st, js, su, er) ==
  [kind |-> "http", status |-> st, json |-> js, success |-> su, error |-> er, msg |-> ""]

NoResponse == Reject("none")

Responses ==
  { Reject("Failed to fetch"), Reject(""),
    Http(200, TRUE, TRUE, ""),
    Http(400, TRUE, FALSE, "X"),
    Http(200, TRUE, FALSE, "X"),
    Http(500, TRUE, FALSE, ""),
    Http(500, FALSE, FALSE, ""),
    Http(500, TRUE, TRUE, "") }

ParseErrorMessage == "Unexpected token < in JSON at position 0"

\* tryBlock throwing the generic message whatever result.error holds
tryBlockGenericError(resp) ==
  IF resp.kind = "reject" THEN [thrown |-> TRUE, message |-> resp.msg]
  ELSE IF ~resp.json THEN [thrown |-> TRUE, message |-> ParseErrorMessage]
  ELSE IF resp.success THEN [thrown |-> FALSE, message |-> ""]
  ELSE [thrown |-> TRUE, message |-> "Something went wrong"]

\* tryBlock taking every parsed body for a success
tryBlockNoSuccessTest(resp) ==
  IF resp.kind = "reject" THEN [thrown |-> TRUE, message |-> resp.msg]
  ELSE IF ~resp.json THEN [thrown |-> TRUE, message |-> ParseErrorMessage]
  ELSE [thrown |-> FALSE, message |-> ""]

\* The try block after the awaits: what is thrown, if anything.
tryBlock(resp) ==
  IF resp.kind = "reject" THEN [thrown |-> TRUE, message |-> resp.msg]
  ELSE IF ~resp.json THEN [thrown |-> TRUE, message |-> ParseErrorMessage]
  ELSE IF resp.success THEN [thrown |-> FALSE, message |-> ""]
  ELSE [thrown |-> TRUE,
        message |-> IF resp.error # "" THEN resp.error ELSE "Something went wrong"]

\* successBranch without contactForm.reset()
successBranchNoReset(d) == [d EXCEPT !.modalActive = TRUE, !.overflow = "hidden"]

\* if (result.success) { ... }: modal, scroll lock, contactForm.reset()
successBranch(d) ==
  [d EXCEPT !.modalActive = TRUE, !.overflow = "hidden", !.fields = FormDefaults]

\* catchBlock that also resets the form
catchBlockReset(d, message) ==
  showErrors([d EXCEPT !.fields = FormDefaults],
             << IF message # "" THEN message
                ELSE "Failed to send message. Please try again." >>)

catchBlock(d, message) ==
  showErrors(d, << IF message # "" THEN message
                   ELSE "Failed to send message. Please try again." >>)

finallyBlock(d, originalContent) ==
  [d EXCEPT !.submitDisabled = FALSE,
            !.submitContent = originalContent,
            !.submitOpacity = "1"]

\* submitResume with try/finally but no catch clause
submitResumeNoCatch(d, originalContent, resp) ==
  LET t == tryBlock(resp)
      after == IF t.thrown THEN d ELSE successBranch(d)
  IN [dom |-> finallyBlock(after, originalContent), escaped |-> t.thrown]

\* The submit listener from the settled fetch to its end.  escaped: an
\* exception left the listener (its promise rejects).
submitResume(d, originalContent, resp) ==
  LET t == tryBlock(resp)
      after == IF t.thrown THEN catchBlock(d, t.message) ELSE successBranch(d)
  IN [dom |-> finallyBlock(after, originalContent), escaped |-> FALSE]

(***************************************************************************)
(* Loading screen and scroll reveal (setupLoadingScreen,                   *)
(* triggerInitialAnimations, setupScrollAnimations).                       *)
(*                                                                         *)
(* Reveal-flagged elements: h1, h2 inside .hero (in document order), e1,   *)
(* e2 outside it.  data-delay is written in tenths of a second ("0.2" is   *)
(* 2), or absent.  Time is counted in milliseconds and passes in steps of  *)
(* 100 ms; a due timer may fire late, never early.  One delivery of the    *)
(* intersection callback holds at most one entry per target.               *)
(***************************************************************************)
RevealElems == { "h1", "h2", "e1", "e2" }

HeroOrder == <<"h1", "h2">>

\* el.closest('.hero')
inHero(e) == \E i \in DOMAIN HeroOrder : HeroOrder[i] = e

NoDelay == -1

\* entry.target.dataset.delay
dataDelay(e) == IF e = "e2" THEN 2 ELSE NoDelay

DelayScale == 1000
LoadingHideDelay == 300
HeroStagger == 100

Pages == [reducedMotion : BOOLEAN, loadingScreen : BOOLEAN, elems : SUBSET RevealElems]

\* a page without reveal elements and without loading screen
PlainPage == [reducedMotion |-> FALSE, loadingScreen |-> FALSE, elems |-> {}]

Timer(kind, e, ms) == [kind |-> kind, el |-> e, remaining |-> ms]

\* setupLoadingScreen: the load listener is registered only when
\* #loading-screen exists
setupLoadingScreen(pg) == pg.loadingScreen

\* setupScrollAnimations without the reduced-motion branch
setupScrollAnimationsNoBypass(pg) ==
  IF pg.elems = {}
    THEN [revealed |-> {}, observerCreated |-> FALSE, observed |-> {}]
  ELSE [revealed |-> {}, observerCreated |-> TRUE,
        observed |-> { e \in pg.elems : ~inHero(e) }]

\* setupScrollAnimations: what is revealed at once, whether an observer is
\* constructed, and what it observes
setupScrollAnimations(pg) ==
  IF pg.elems = {}
    THEN [revealed |-> {}, observerCreated |-> FALSE, observed |-> {}]
  ELSE IF pg.reducedMotion
    THEN [revealed |-> pg.elems, observerCreated |-> FALSE, observed |-> {}]
  ELSE [revealed |-> {}, observerCreated |-> TRUE,
        observed |-> { e \in pg.elems : ~inHero(e) }]

\* revealDelay ignoring data-delay
revealDelayNone(e) == 0

\* dataset.delay ? parseFloat(dataset.delay) * 1000 : 0
revealDelay(e) ==
  IF dataDelay(e) = NoDelay THEN 0 ELSE (dataDelay(e) * DelayScale) \div 10

\* revealCallback without observer.unobserve(entry.target)
revealCallbackNoUnobserve(obs, tms, hit) ==
  [timers |-> tms \cup { Timer("reveal", e, revealDelay(e)) : e \in hit },
   observed |-> obs]

\* The intersection callback on a delivery whose intersecting entries are
\* the targets in hit: one timer per entry, and the target is unobserved.
revealCallback(obs, tms, hit) ==
  [timers |-> tms \cup { Timer("reveal", e, revealDelay(e)) : e \in hit },
   observed |-> obs \ hit]

\* index of a hero element in querySelectorAll('.hero [data-reveal]')
heroIndex(pg, e) ==
  Cardinality({ i \in DOMAIN HeroOrder :
                  /\ HeroOrder[i] \in pg.elems
                  /\ \E j \in DOMAIN HeroOrder : HeroOrder[j] = e /\ i < j })

\* triggerInitialAnimations: setTimeout(..., index * 100) per hero element
triggerInitialAnimations(pg, tms) ==
  tms \cup { Timer("heroReveal", e, heroIndex(pg, e) * HeroStagger) :
               e \in { x \in pg.elems : inHero(x) } }

\* the reveal state of a page once nothing is left to happen on PlainPage
RevealIdle ==
  /\ page = PlainPage
  /\ phase = "loaded"
  /\ loadListener = FALSE
  /\ loadingHidden = FALSE
  /\ revealed = {}
  /\ observerCreated = FALSE
  /\ observed = {}
  /\ timers = {}
  /\ scheduled = [e \in RevealElems |-> 0]
  /\ waited = [e \in RevealElems |-> 0]

(***************************************************************************)
(* Counter animation (setupCounterAnimations).                             *)
(*                                                                         *)
(* The texts of the .stat-number elements are sequences of one-character   *)
(* strings, so that includes, trim, the digit filter and parseInt are      *)
(* computed.  Date.now() is the clock, in milliseconds, read at multiples  *)
(* of 100 ms; the synchronous forEach of animateCounters reads one value   *)
(* of it.  On that grid target * (1 - (1 - progress)^4) meets an integer   *)
(* only at progress 0 and 1, where the floating-point result is exact, so  *)
(* Math.floor of it is the integer quotient computed here.  The callbacks  *)
(* passed to requestAnimationFrame during one task all run in the next     *)
(* animation frame.                                                        *)
(***************************************************************************)
Digits == <<"0", "1", "2", "3", "4", "5", "6", "7", "8", "9">>

isDigit(ch) == \E i \in DOMAIN Digits : Digits[i] = ch

digitValue(ch) == (CHOOSE i \in DOMAIN Digits : Digits[i] = ch) - 1

NaN == -1

\* String.prototype.includes
includes(s, sub) ==
  \E i \in 1..(Len(s) - Len(sub) + 1) : SubSeq(s, i, i + Len(sub) - 1) = sub

RECURSIVE trim(_)
\* String.prototype.trim
trim(s) ==
  IF s = << >> THEN s
  ELSE IF Head(s) = " " THEN trim(Tail(s))
  ELSE IF s[Len(s)] = " " THEN trim(SubSeq(s, 1, Len(s) - 1))
  ELSE s

\* s.replace(/[^\d]/g, '')
digitsOnly(s) == SelectSeq(s, isDigit)

RECURSIVE parseIntDigits(_)
\* parseInt of a string of digits; NaN for the empty string
parseIntDigits(s) ==
  IF s = << >> THEN NaN
  ELSE IF Len(s) = 1 THEN digitValue(s[1])
  ELSE parseIntDigits(SubSeq(s, 1, Len(s) - 1)) * 10 + digitValue(s[Len(s)])

RECURSIVE numberToString(_)
\* the string a non-negative integer becomes in prefix + displayValue + suffix
numberToString(n) ==
  IF n < 10 THEN << Digits[n + 1] >>
  ELSE numberToString(n \div 10) \o << Digits[(n % 10) + 1] >>

RangeText == <<"7", "-", "1", "4">>

\* parseCounter testing '7-14' before '20'
parseCounterRangeFirst(finalText) ==
  IF includes(finalText, RangeText)
    THEN [target |-> 14, prefix |-> <<"7", "-">>, suffix |-> << >>]
  ELSE IF includes(finalText, <<"2", "0">>)
    THEN [target |-> 20, prefix |-> << >>, suffix |-> <<"+">>]
  ELSE IF includes(finalText, <<"1", "0", "0">>)
    THEN [target |-> 100, prefix |-> << >>, suffix |-> <<"%">>]
  ELSE [target |-> parseIntDigits(digitsOnly(finalText)),
        prefix |-> << >>,
        suffix |-> IF includes(finalText, <<"%">>) THEN <<"%">>
                   ELSE IF includes(finalText, <<"+">>) THEN <<"+">>
                   ELSE << >>]

\* the parse at the head of animateCounters' forEach body
parseCounter(finalText) ==
  IF includes(finalText, <<"2", "0">>)
    THEN [target |-> 20, prefix |-> << >>, suffix |-> <<"+">>]
  ELSE IF includes(finalText, RangeText)
    THEN [target |-> 14, prefix |-> <<"7", "-">>, suffix |-> << >>]
  ELSE IF includes(finalText, <<"1", "0", "0">>)
    THEN [target |-> 100, prefix |-> << >>, suffix |-> <<"%">>]
  ELSE [target |-> parseIntDigits(digitsOnly(finalText)),
        prefix |-> << >>,
        suffix |-> IF includes(finalText, <<"%">>) THEN <<"%">>
                   ELSE IF includes(finalText, <<"+">>) THEN <<"+">>
                   ELSE << >>]

Duration == 2000
TriggerDelay == 500
FallbackDelay == 1500

\* how many steps of 100 ms past the end of the animation the clock is followed
MaxLateFrames == 2

quart(x) == x * x * x * x

\* displayValue with a linear progress instead of ease-out-quart
displayValueLinear(target, elapsed) ==
  LET e == IF elapsed < Duration THEN elapsed ELSE Duration
  IN (target * e) \div Duration

\* Math.floor(targetValue * (1 - Math.pow(1 - progress, 4))) with
\* progress = Math.min(elapsed / duration, 1)
displayValue(target, elapsed) ==
  LET e == IF elapsed < Duration THEN elapsed ELSE Duration
      n == Duration \div 100
      r == (Duration - e) \div 100
  IN (target * (quart(n) - quart(r))) \div quart(n)

\* a .stat-number element before animateCounters has reached it
IdleCounter(text) ==
  [text |-> text, status |-> "idle", finalText |-> << >>, target |-> NaN,
   prefix |-> << >>, suffix |-> << >>, startTime |-> 0, frames |-> 0,
   elapsed |-> 0, before |-> << >>]

\* updateCounter that reschedules itself whatever the progress
updateCounterNoEnd(c, now) ==
  LET elapsed == now - c.startTime
      displayText == IF includes(c.finalText, RangeText) /\ c.target = 14
                       THEN RangeText
                     ELSE c.prefix \o numberToString(displayValue(c.target, elapsed)) \o c.suffix
  IN [c EXCEPT !.text = displayText,
               !.status = "animating",
               !.frames = IF @ < 3 THEN @ + 1 ELSE @,
               !.elapsed = elapsed,
               !.before = c.text]

\* updateCounter without the special case for the range
updateCounterNoRangeCase(c, now) ==
  LET elapsed == now - c.startTime
      displayText == c.prefix \o numberToString(displayValue(c.target, elapsed)) \o c.suffix
  IN [c EXCEPT !.text = IF elapsed < Duration THEN displayText ELSE c.finalText,
               !.status = IF elapsed < Duration THEN "animating" ELSE "settled",
               !.frames = IF @ < 3 THEN @ + 1 ELSE @,
               !.elapsed = elapsed,
               !.before = c.text]

\* updateCounter: one frame of one counter.  frames, elapsed and before are
\* the observer's: how many frames ran, the elapsed time this one read, and
\* the text it replaced.
updateCounter(c, now) ==
  LET elapsed == now - c.startTime
      displayText == IF includes(c.finalText, RangeText) /\ c.target = 14
                       THEN RangeText
                     ELSE c.prefix \o numberToString(displayValue(c.target, elapsed)) \o c.suffix
  IN [c EXCEPT !.text = IF elapsed < Duration THEN displayText ELSE c.finalText,
               !.status = IF elapsed < Duration THEN "animating" ELSE "settled",
               !.frames = IF @ < 3 THEN @ + 1 ELSE @,
               !.elapsed = elapsed,
               !.before = c.text]

\* the forEach body of animateCounters on one element: parse, and unless the
\* target is NaN start the animation with a first, synchronous updateCounter
startCounter(c, now) ==
  LET finalText == trim(c.text)
      p == parseCounter(finalText)
  IN IF p.target = NaN THEN [c EXCEPT !.status = "skipped"]
     ELSE updateCounter([c EXCEPT !.finalText = finalText, !.target = p.target,
                                  !.prefix = p.prefix, !.suffix = p.suffix,
                                  !.startTime = now], now)

\* animateCounters past its hasAnimated test.  runs is the observer's count
\* of executions of this body.
animateBody(c, now) ==
  [c EXCEPT !.hasAnimated = TRUE,
            !.runs = IF @ < 2 THEN @ + 1 ELSE @,
            !.counters = [i \in DOMAIN @ |-> startCounter(@[i], now)]]

animateCounters(c, now) == IF c.hasAnimated THEN c ELSE animateBody(c, now)

\* the stats observer's callback on a delivery with one entry
statsCallback(c, isIntersecting) ==
  IF isIntersecting
    THEN [c EXCEPT !.trigger = @ \cup {TriggerDelay}, !.observing = FALSE]
  ELSE c

CounterEvents == { "intersecting", "notIntersecting", "timer" }

\* counterEvent with neither observer.unobserve nor the hasAnimated test
counterEventNotOneShot(c, ev, now) ==
  CASE ev = "intersecting" -> [c EXCEPT !.trigger = @ \cup {TriggerDelay}]
    [] ev = "notIntersecting" -> c
    [] ev = "timer" -> animateBody(c, now)

\* the callbacks setupCounterAnimations registers, by the event that calls them
counterEvent(c, ev, now) ==
  CASE ev = "intersecting" -> statsCallback(c, TRUE)
    [] ev = "notIntersecting" -> statsCallback(c, FALSE)
    [] ev = "timer" -> animateCounters(c, now)

CounterPages ==
  [texts : { << >>,
             << <<"2", "0", "+">>, RangeText, <<"1", "0", "0", "%">> >>,
             << <<"a", "b", "c">>, <<" ", "5", "0", "+", " ">> >> },
   statsSection : BOOLEAN,
   hasIO : BOOLEAN]

\* a page without .stat-number elements
NoCounters == [texts |-> << >>, statsSection |-> FALSE, hasIO |-> TRUE]

\* setupCounterAnimations: the closure it leaves behind
setupCounterAnimations(pg) ==
  LET c == [hasAnimated |-> FALSE, observing |-> FALSE, trigger |-> {}, runs |-> 0,
            counters |-> [i \in DOMAIN pg.texts |-> IdleCounter(pg.texts[i])]]
  IN IF pg.texts = << >> THEN c
     ELSE IF pg.statsSection /\ pg.hasIO THEN [c EXCEPT !.observing = TRUE]
     ELSE [c EXCEPT !.trigger = {FallbackDelay}]

CounterIdle ==
  /\ cpage = NoCounters
  /\ cs = setupCounterAnimations(NoCounters)
  /\ clock = 0

(***************************************************************************)
(* app.init as a whole: the setup functions in their order, on a page that *)
(* has or lacks each feature's elements, in a browser that has or lacks    *)
(* IntersectionObserver.  A setup function that throws ends init: the      *)
(* functions after it do not run.                                          *)
(***************************************************************************)
InitSteps ==
  << "setupLoadingScreen", "setupNavigation", "setupThemeToggle", "setupScrollAnimations",
     "setupContactForm", "setupModalHandlers", "setupSmoothScrolling",
     "setupCounterAnimations", "setupImageLoadingFixes", "setupPerformanceOptimizations" >>

Features ==
  [navbar : BOOLEAN, mobileToggle : BOOLEAN, navMenu : BOOLEAN, themeToggle : BOOLEAN,
   themeIcon : BOOLEAN, contactForm : BOOLEAN, submitBtn : BOOLEAN, successModal : BOOLEAN]

NoFeatures ==
  [navbar |-> FALSE, mobileToggle |-> FALSE, navMenu |-> FALSE, themeToggle |-> FALSE,
   themeIcon |-> FALSE, contactForm |-> FALSE, submitBtn |-> FALSE, successModal |-> FALSE]

\* new IntersectionObserver(...) where the constructor does not exist
stepThrows(step, pg, cp) ==
  step = "setupScrollAnimations" /\ pg.elems # {} /\ ~pg.reducedMotion /\ ~cp.hasIO

\* whether a setup function gets past its guard clause and registers behaviour
stepRegisters(step, f, pg, cp) ==
  CASE step = "setupLoadingScreen" -> pg.loadingScreen
    [] step = "setupNavigation" -> f.navbar /\ f.mobileToggle /\ f.navMenu
    [] step = "setupThemeToggle" -> f.themeToggle /\ f.themeIcon
    [] step = "setupScrollAnimations" -> pg.elems # {}
    [] step = "setupContactForm" -> f.contactForm /\ f.submitBtn
    [] step = "setupModalHandlers" -> f.successModal
    [] step = "setupCounterAnimations" -> cp.texts # << >>
    [] OTHER -> TRUE

\* app.init: how it ends, the setup functions it called, and those of them
\* that registered behaviour
appInit(f, pg, cp) ==
  LET thrown == { i \in DOMAIN InitSteps : stepThrows(InitSteps[i], pg, cp) }
      last == IF thrown = {} THEN Len(InitSteps)
              ELSE CHOOSE i \in thrown : \A j \in thrown : i <= j
  IN [result |-> IF thrown = {} THEN "ready" ELSE "threw",
      called |-> { InitSteps[i] : i \in 1..last },
      registered |-> { InitSteps[i] : i \in { k \in 1..last :
                         /\ k \notin thrown
                         /\ stepRegisters(InitSteps[k], f, pg, cp) } }]

NotStarted == [result |-> "none", called |-> {}, registered |-> {}]

\* the counters of a page on which setupCounterAnimations has not run
unsetCounters(cp) ==
  [hasAnimated |-> FALSE, observing |-> FALSE, trigger |-> {}, runs |-> 0,
   counters |-> [i \in DOMAIN cp.texts |-> IdleCounter(cp.texts[i])]]

BootIdle ==
  /\ features = NoFeatures
  /\ boot = NotStarted

(***************************************************************************)
(* Theme toggle (setupThemeToggle).  pulses are the pending midpoint       *)
(* timers, oldest first, each with the milliseconds it still has to wait;  *)
(* time passes in steps of 50 ms.                                          *)
(***************************************************************************)
PulseDelay == 150

NoItem == "none"

StoredThemes == { NoItem, "light", "dark" }

\* localStorage.getItem('theme') || 'light'
loadTheme(stored) == IF stored = NoItem THEN "light" ELSE stored

\* updateThemeIcon
updateThemeIcon(t, theme) ==
  [t EXCEPT !.icon = IF theme = "dark" THEN "sun" ELSE "moon",
            !.ariaLabel = IF theme = "dark" THEN "Switch to light mode"
                          ELSE "Switch to dark mode"]

\* the theme state once the script is evaluated and app.init has set
\* data-theme; the icon is the markup's
themeLoaded(stored) ==
  [theme |-> loadTheme(stored), dataTheme |-> loadTheme(stored), stored |-> stored,
   icon |-> "markup", ariaLabel |-> "markup", transform |-> "", pulses |-> << >>,
   announced |-> 0, clicks |-> 0, overlapped |-> FALSE, initial |-> loadTheme(stored)]

\* setupThemeToggle past its guard clause
setupThemeToggle(t) == updateThemeIcon(t, t.theme)

\* the click listener applying the theme at once, without the timer
themeClickImmediate(t) ==
  LET theme == IF t.theme = "dark" THEN "light" ELSE "dark"
  IN updateThemeIcon([t EXCEPT !.theme = theme, !.dataTheme = theme, !.stored = theme,
                               !.clicks = @ + 1], theme)

\* the click listener of #theme-toggle.  clicks is the observer's count,
\* overlapped whether some click found an earlier pulse pending.
themeClick(t) ==
  [t EXCEPT !.theme = IF @ = "dark" THEN "light" ELSE "dark",
            !.transform = "scale(0.9)",
            !.pulses = Append(@, PulseDelay),
            !.clicks = @ + 1,
            !.overlapped = (@ \/ t.pulses # << >>)]

\* the callback of the midpoint timer; announced counts the announcements
themePulse(t) ==
  updateThemeIcon([t EXCEPT !.dataTheme = t.theme, !.stored = t.theme, !.transform = "",
                            !.announced = IF @ < 2 THEN @ + 1 ELSE @],
                  t.theme)

ThemeIdle == th = themeLoaded(NoItem)

(***************************************************************************)
(* Navbar scroll effect (handleScroll and the scroll listener of           *)
(* setupNavigation).  pending are the timers setTimeout has armed and      *)
(* that neither fired nor were cleared; scrollTimeout is the closure's      *)
(* variable, 0 while undefined.  The browser changes window.scrollY first  *)
(* and delivers the scroll event afterwards.                               *)
(***************************************************************************)
Offsets == { 0, 50, 51, 200, 201, 300 }

ScrolledThreshold == 50
HideThreshold == 200
DebounceDelay == 10

\* handleScroll comparing with >= instead of >
handleScrollAtLeast(n) ==
  [n EXCEPT !.scrolled = (n.scrollY >= ScrolledThreshold),
            !.transform = IF n.scrollY > n.lastScrollY /\ n.scrollY > HideThreshold
                            THEN "translateY(-100%)" ELSE "translateY(0)",
            !.lastScrollY = n.scrollY,
            !.runs = IF @ < 2 THEN @ + 1 ELSE @,
            !.burst = 0,
            !.wasScrolled = n.scrolled]

\* handleScroll.  runs, burst and wasScrolled are the observer's: how often
\* it ran, how many scroll events were delivered since it last ran, and the
\* class it found.
handleScroll(n) ==
  [n EXCEPT !.scrolled = (n.scrollY > ScrolledThreshold),
            !.transform = IF n.scrollY > n.lastScrollY /\ n.scrollY > HideThreshold
                            THEN "translateY(-100%)" ELSE "translateY(0)",
            !.lastScrollY = n.scrollY,
            !.runs = IF @ < 2 THEN @ + 1 ELSE @,
            !.burst = 0,
            !.wasScrolled = n.scrolled]

\* the scroll listener without clearTimeout
scrollListenerNoClear(n) ==
  [n EXCEPT !.pending = @ \cup { [id |-> n.nextId, remaining |-> DebounceDelay] },
            !.scrollTimeout = n.nextId,
            !.nextId = @ + 1,
            !.eventDue = FALSE,
            !.burst = IF @ < 2 THEN @ + 1 ELSE @]

\* the scroll listener: clearTimeout(scrollTimeout), then setTimeout(handleScroll, 10)
scrollListener(n) ==
  [n EXCEPT !.pending = { t \in @ : t.id # n.scrollTimeout }
                          \cup { [id |-> n.nextId, remaining |-> DebounceDelay] },
            !.scrollTimeout = n.nextId,
            !.nextId = @ + 1,
            !.eventDue = FALSE,
            !.burst = IF @ < 2 THEN @ + 1 ELSE @]

\* setupNavigation's scroll state on a page loaded at offset y
navLoaded(y) ==
  [scrollY |-> y, lastScrollY |-> y, scrolled |-> FALSE, transform |-> "",
   pending |-> {}, scrollTimeout |-> 0, nextId |-> 1, eventDue |-> FALSE,
   runs |-> 0, burst |-> 0, wasScrolled |-> FALSE]

ScrollIdle == sc = navLoaded(0)

(***************************************************************************)
(* Server (server.js).  A body field after express.json(): absent, a       *)
(* string, a number or an array holding one string.  val is the text       *)
(* String(v) gives: the string itself, the number's decimal digits, the    *)
(* array's elements joined.                                                *)
(***************************************************************************)
Undefined == [type |-> "undefined", val |-> Empty]

Str(s) == [type |-> "string", val |-> s]

Num(n) == [type |-> "number", val |-> numberToString(n)]

Arr(s) == [type |-> "array", val |-> s]

\* !v is false of: a non-empty string, a number other than 0, any array
truthy(v) ==
  CASE v.type = "undefined" -> FALSE
    [] v.type = "string" -> v.val # Empty
    [] v.type = "number" -> v.val # numberToString(0)
    [] OTHER -> TRUE

\* v.trim() is a TypeError unless v is a string
trimThrows(v) == v.type # "string"

\* the four property reads of sanitizedData; business only when truthy
sanitizeThrows(body) ==
  \/ trimThrows(body.name)
  \/ trimThrows(body.email)
  \/ (truthy(body.business) /\ trimThrows(body.business))
  \/ trimThrows(body.message)

RequiredFieldsError == "Please fill in all required fields (name, email, message)"
EmailFormatError == "Please provide a valid email address"
ContactError == "An error occurred while processing your request. Please try again."

\* res.status(st).json(body): success is "true", "false" or "absent"
Json(st, su, er) == [status |-> st, kind |-> "json", success |-> su, error |-> er]

\* res.sendFile / a file found by express.static
File(name) == [status |-> 200, kind |-> "file", success |-> "absent", error |-> name]

\* Express's own answer when no middleware handles the request
NotFoundPage == [status |-> 404, kind |-> "html", success |-> "absent", error |-> "Cannot"]

NoReply == [status |-> 0, kind |-> "none", success |-> "absent", error |-> ""]

\* contactHandler testing the email format before the required fields
contactHandlerFormatFirst(body) ==
  IF ~emailRegexTest(body.email.val)
    THEN Json(400, "false", EmailFormatError)
  ELSE IF ~truthy(body.name) \/ ~truthy(body.email) \/ ~truthy(body.message)
    THEN Json(400, "false", RequiredFieldsError)
  ELSE IF sanitizeThrows(body)
    THEN Json(500, "false", ContactError)
  ELSE Json(200, "true", "")

\* app.post('/contact'): required fields, email format (on String(email)),
\* sanitization inside try, res.json (status 200); catch answers 500
contactHandler(body) ==
  IF ~truthy(body.name) \/ ~truthy(body.email) \/ ~truthy(body.message)
    THEN Json(400, "false", RequiredFieldsError)
  ELSE IF ~emailRegexTest(body.email.val)
    THEN Json(400, "false", EmailFormatError)
  ELSE IF sanitizeThrows(body)
    THEN Json(500, "false", ContactError)
  ELSE Json(200, "true", "")

\* A path is the sequence of its segments: "/" is << >>, "/api/x" is
\* <<"api", "x">>.  url.startsWith('/' + seg + '/')
startsWithSegment(path, seg) == Len(path) >= 2 /\ path[1] = seg

GetRoutes ==
  { << >>, <<"favicon.ico">>, <<"robots.txt">>, <<"health">>, <<"debug", "assets">>,
    <<"api", "services">> }

\* app.use('/api/*', ...)
apiNotFound == Json(404, "false", "API endpoint not found")

\* staticNotFound looking at the /assets/ prefix only
staticNotFoundAssetsOnly(path) == startsWithSegment(path, "assets")

\* the test of the middleware after the API handler
staticNotFound(path) == startsWithSegment(path, "assets") \/ startsWithSegment(path, "public")

\* app.get('*', ...)
catchAll(path) ==
  IF startsWithSegment(path, "api") \/ startsWithSegment(path, "assets")
    THEN Json(404, "false", "Resource not found")
    ELSE File("index.html")

\* one of the explicit GET routes answered
routeReply == [status |-> 200, kind |-> "route", success |-> "absent", error |-> ""]

\* the global error handler
errorHandler(message) == Json(500, "false", message)

\* The middleware chain in registration order.  req.parsed: whether
\* express.json() could parse the body; req.static: whether express.static
\* finds a file for the path (GET only).
app(req) ==
  IF ~req.parsed THEN errorHandler("Unexpected token")
  ELSE IF req.method = "GET" /\ req.static THEN File("static")
  ELSE IF req.method = "GET" /\ req.path \in GetRoutes THEN routeReply
  ELSE IF req.method = "POST" /\ req.path = <<"contact">> THEN contactHandler(req.body)
  ELSE IF startsWithSegment(req.path, "api") THEN apiNotFound
  ELSE IF staticNotFound(req.path) THEN Json(404, "absent", "Static file not found")
  ELSE IF req.method = "GET" THEN catchAll(req.path)
  ELSE NotFoundPage

NoBody == [name |-> Undefined, email |-> Undefined, business |-> Undefined, message |-> Undefined]

NoRequest == [method |-> "none", path |-> << >>, parsed |-> TRUE, static |-> FALSE, body |-> NoBody]

ServerIdle == srv = [req |-> NoRequest, resp |-> NoReply, done |-> FALSE]

(***************************************************************************)
(* State machine                                                           *)
(***************************************************************************)
\* What the observer keeps of a step: the event, its argument, and the menu /
\* modal / scroll-lock state the event found.
Event(name, target, resp, d) ==
  [name |-> name, target |-> target, resp |-> resp,
   was |-> [modalActive |-> d.modalActive, menuActive |-> d.menuActive,
            overflow |-> d.overflow]]

\* The page once app.init has run: nothing open, the form blank and idle.
\* aria-expanded is whatever the markup gives the toggle.
InitDom(aria, fields) ==
  [toggleActive |-> FALSE, menuActive |-> FALSE, ariaExpanded |-> aria, overflow |-> "",
   modalActive |-> FALSE, fields |-> fields, formErrors |-> << >>,
   submitDisabled |-> FALSE, submitContent |-> OriginalContent, submitOpacity |-> ""]

InitObservers ==
  /\ inflight = << >>
  /\ posts = 0
  /\ unhandled = FALSE
  /\ submitEvents = 0
  /\ passedEvents = 0
  /\ successSeen = FALSE
  /\ lastEvent = Event("init", "none", NoResponse, dom)

Init ==
  /\ \E aria \in { "unset", "false" } : dom = InitDom(aria, FormDefaults)
  /\ InitObservers
  /\ RevealIdle
  /\ CounterIdle
  /\ BootIdle
  /\ ThemeIdle
  /\ ScrollIdle
  /\ ServerIdle

\* a click event on target, through every listener on its path
Click ==
  \E target \in Targets :
    /\ dom' = dispatchClick(dom, target)
    /\ lastEvent' = Event("click", target, NoResponse, dom)
    /\ UNCHANGED <<inflight, posts, unhandled, submitEvents, passedEvents, successSeen, revealVars, counterVars, bootVars, themeVars, scrollVars, serverVars>>

\* a keydown event on document
Keydown ==
  \E key \in Keys :
    /\ dom' = dispatchKeydown(dom, key)
    /\ lastEvent' = Event("keydown", key, NoResponse, dom)
    /\ UNCHANGED <<inflight, posts, unhandled, submitEvents, passedEvents, successSeen, revealVars, counterVars, bootVars, themeVars, scrollVars, serverVars>>

\* the user edits the form's fields (no listener of the script runs)
EditForm ==
  \E f \in FormInputs :
    /\ dom' = [dom EXCEPT !.fields = f]
    /\ lastEvent' = Event("edit", "contactForm", NoResponse, dom)
    /\ UNCHANGED <<inflight, posts, unhandled, submitEvents, passedEvents, successSeen, revealVars, counterVars, bootVars, themeVars, scrollVars, serverVars>>

\* a submit event on the form: the listener runs up to await fetch(...)
\* The listener itself never looks at submitBtn.disabled, so a submit event
\* (Enter, requestSubmit(), dispatchEvent) is handled whenever it is delivered.
Submit ==
  /\ submitEvents < MaxSubmits
  /\ LET r == submitHandler(dom) IN
       /\ dom' = r.dom
       /\ inflight' = IF r.fetch
                        THEN Append(inflight, [originalContent |-> r.originalContent,
                                               body |-> r.body])
                        ELSE inflight
       /\ posts' = IF r.fetch THEN posts + 1 ELSE posts
  /\ submitEvents' = submitEvents + 1
  /\ passedEvents' = IF validateForm(dom.fields) = << >> THEN passedEvents + 1 ELSE passedEvents
  /\ lastEvent' = Event("submit", "contactForm", NoResponse, dom)
  /\ UNCHANGED <<unhandled, successSeen, revealVars, counterVars, bootVars, themeVars, scrollVars, serverVars>>

RemoveAt(seq, i) == SubSeq(seq, 1, i - 1) \o SubSeq(seq, i + 1, Len(seq))

\* a pending request settles with resp and its listener runs to the end
Complete ==
  \E i \in DOMAIN inflight, resp \in Responses :
    LET r == submitResume(dom, inflight[i].originalContent, resp) IN
      /\ dom' = r.dom
      /\ unhandled' = (unhandled \/ r.escaped)
      /\ inflight' = RemoveAt(inflight, i)
      /\ successSeen' = (successSeen \/ (resp.kind = "http" /\ resp.json /\ resp.success))
      /\ lastEvent' = Event("complete", "contactForm", resp, dom)
      /\ UNCHANGED <<posts, submitEvents, passedEvents, revealVars, counterVars, bootVars, themeVars, scrollVars, serverVars>>

Next == Click \/ Keydown \/ EditForm \/ Submit \/ Complete

Spec == Init /\ [][Next]_vars

(***************************************************************************)
(* validateForm on every combination of field values: the form starts with *)
(* any values and one submit event is delivered.                           *)
(***************************************************************************)
InitValidate ==
  /\ \E f \in AllForms : dom = InitDom("false", f)
  /\ InitObservers
  /\ RevealIdle
  /\ CounterIdle
  /\ BootIdle
  /\ ThemeIdle
  /\ ScrollIdle
  /\ ServerIdle

NextValidate == Submit

SpecValidate == InitValidate /\ [][NextValidate]_vars

(***************************************************************************)
(* Reveal state machine: any page, from before DOMContentLoaded.           *)
(***************************************************************************)
InitReveal ==
  /\ dom = InitDom("false", FormDefaults)
  /\ InitObservers
  /\ page \in Pages
  /\ phase = "parsing"
  /\ loadListener = FALSE
  /\ loadingHidden = FALSE
  /\ revealed = {}
  /\ observerCreated = FALSE
  /\ observed = {}
  /\ timers = {}
  /\ scheduled = [e \in RevealElems |-> 0]
  /\ waited = [e \in RevealElems |-> 0]
  /\ CounterIdle
  /\ BootIdle
  /\ ThemeIdle
  /\ ScrollIdle
  /\ ServerIdle

\* DOMContentLoaded: app.init runs setupLoadingScreen and
\* setupScrollAnimations
DomContentLoaded ==
  /\ phase = "parsing"
  /\ phase' = "ready"
  /\ loadListener' = setupLoadingScreen(page)
  /\ LET r == setupScrollAnimations(page) IN
       /\ revealed' = r.revealed
       /\ observerCreated' = r.observerCreated
       /\ observed' = r.observed
  /\ UNCHANGED <<page, loadingHidden, timers, scheduled, waited, uiVars, counterVars, bootVars, themeVars, scrollVars, serverVars>>

\* the window's load event: setTimeout(..., 300) when the listener exists
WindowLoad ==
  /\ phase = "ready"
  /\ phase' = "loaded"
  /\ timers' = IF loadListener
                 THEN timers \cup { Timer("hideLoading", "none", LoadingHideDelay) }
                 ELSE timers
  /\ UNCHANGED <<page, loadListener, loadingHidden, revealed, observerCreated, observed,
                 scheduled, waited, uiVars, counterVars, bootVars, themeVars, scrollVars, serverVars>>

\* the observer delivers entries; hit are the observed targets whose entry
\* has isIntersecting true
Intersect ==
  /\ observerCreated
  /\ \E hit \in SUBSET observed :
       LET r == revealCallback(observed, timers, hit) IN
         /\ timers' = r.timers
         /\ observed' = r.observed
         /\ scheduled' = [e \in RevealElems |->
                            IF e \in hit /\ scheduled[e] < 2 THEN scheduled[e] + 1
                            ELSE scheduled[e]]
  /\ UNCHANGED <<page, phase, loadListener, loadingHidden, revealed, observerCreated,
                 waited, uiVars, counterVars, bootVars, themeVars, scrollVars, serverVars>>

\* 100 ms pass while some timer is not yet due
Tick ==
  /\ \E t \in timers : t.remaining > 0
  /\ timers' = { IF t.remaining > 0 THEN Timer(t.kind, t.el, t.remaining - 100) ELSE t :
                   t \in timers }
  /\ waited' = [e \in RevealElems |->
                  IF scheduled[e] > 0 /\ e \notin revealed /\ dataDelay(e) # NoDelay
                     /\ waited[e] < dataDelay(e) * 100
                    THEN waited[e] + 100 ELSE waited[e]]
  /\ UNCHANGED <<page, phase, loadListener, loadingHidden, revealed, observerCreated,
                 observed, scheduled, uiVars, counterVars, bootVars, themeVars, scrollVars,
                 serverVars>>

\* a due timer's callback runs
TimerFire ==
  \E t \in timers :
    /\ t.remaining = 0
    /\ IF t.kind = "hideLoading"
         THEN /\ loadingHidden' = TRUE
              /\ timers' = triggerInitialAnimations(page, timers \ {t})
              /\ UNCHANGED revealed
         ELSE /\ revealed' = revealed \cup {t.el}
              /\ timers' = timers \ {t}
              /\ UNCHANGED loadingHidden
    /\ UNCHANGED <<page, phase, loadListener, observerCreated, observed, scheduled, waited,
                   uiVars, counterVars, bootVars, themeVars, scrollVars, serverVars>>

NextReveal == DomContentLoaded \/ WindowLoad \/ Intersect \/ Tick \/ TimerFire

SpecReveal == InitReveal /\ [][NextReveal]_vars

\* The event loop runs due timers, time passes, and the document finishes
\* loading.
SpecRevealFair ==
  /\ SpecReveal
  /\ WF_vars(DomContentLoaded) /\ WF_vars(WindowLoad) /\ WF_vars(Tick) /\ WF_vars(TimerFire)

(***************************************************************************)
(* Counter state machine: any counters' page, from the end of app.init.    *)
(***************************************************************************)
InitCounter ==
  /\ dom = InitDom("false", FormDefaults)
  /\ InitObservers
  /\ RevealIdle
  /\ cpage \in CounterPages
  /\ cs = setupCounterAnimations(cpage)
  /\ clock = 0
  /\ BootIdle
  /\ ThemeIdle
  /\ ScrollIdle
  /\ ServerIdle

Animating == { i \in DOMAIN cs.counters : cs.counters[i].status = "animating" }

\* the stats observer delivers an entry for .hero-stats
StatsIntersect ==
  /\ cs.observing
  /\ \E ev \in { "intersecting", "notIntersecting" } : cs' = counterEvent(cs, ev, clock)
  /\ UNCHANGED <<cpage, clock, uiVars, revealVars, bootVars, themeVars, scrollVars, serverVars>>

\* 100 ms pass while a trigger timer is not yet due or a counter animates
CounterTick ==
  /\ \/ \E t \in cs.trigger : t > 0
     \/ \E i \in Animating :
          clock - cs.counters[i].startTime < Duration + MaxLateFrames * 100
  /\ clock' = clock + 100
  /\ cs' = [cs EXCEPT !.trigger = { IF t > 0 THEN t - 100 ELSE t : t \in @ }]
  /\ UNCHANGED <<cpage, uiVars, revealVars, bootVars, themeVars, scrollVars, serverVars>>

\* a due trigger timer calls animateCounters
TriggerFire ==
  /\ 0 \in cs.trigger
  /\ cs' = counterEvent([cs EXCEPT !.trigger = @ \ {0}], "timer", clock)
  /\ UNCHANGED <<cpage, clock, uiVars, revealVars, bootVars, themeVars, scrollVars, serverVars>>

\* an animation frame: every pending updateCounter runs
AnimationFrame ==
  /\ Animating # {}
  /\ cs' = [cs EXCEPT !.counters = [i \in DOMAIN @ |->
                                      IF i \in Animating THEN updateCounter(@[i], clock)
                                      ELSE @[i]]]
  /\ UNCHANGED <<cpage, clock, uiVars, revealVars, bootVars, themeVars, scrollVars, serverVars>>

NextCounter == StatsIntersect \/ CounterTick \/ TriggerFire \/ AnimationFrame

SpecCounter == InitCounter /\ [][NextCounter]_vars

\* Time passes, due timers run and animation frames are rendered.
SpecCounterFair ==
  /\ SpecCounter
  /\ WF_vars(CounterTick) /\ WF_vars(TriggerFire) /\ WF_vars(AnimationFrame)

(***************************************************************************)
(* The parse of animateCounters on many texts: a page with one .stat-number *)
(* whose text is up to MaxTokens pieces put together, animated by the      *)
(* fallback timer.                                                         *)
(***************************************************************************)
MaxTokens == 3

TextTokens ==
  { <<"2", "0">>, RangeText, <<"1", "0", "0">>, <<"5">>, <<"a", "b", "c">>, <<"+">>, <<"%">>,
    <<" ">> }

RECURSIVE TokenTexts(_)
TokenTexts(n) ==
  IF n = 0 THEN { << >> }
  ELSE LET shorter == TokenTexts(n - 1)
       IN shorter \cup { t \o k : t \in shorter, k \in TextTokens }

InitParse ==
  /\ dom = InitDom("false", FormDefaults)
  /\ InitObservers
  /\ RevealIdle
  /\ \E t \in TokenTexts(MaxTokens) \ { << >> } :
       cpage = [texts |-> << t >>, statsSection |-> FALSE, hasIO |-> TRUE]
  /\ cs = setupCounterAnimations(cpage)
  /\ clock = 0
  /\ BootIdle
  /\ ThemeIdle
  /\ ScrollIdle
  /\ ServerIdle

NextParse == CounterTick \/ TriggerFire

SpecParse == InitParse /\ [][NextParse]_vars

(***************************************************************************)
(* app.init on any page.                                                   *)
(***************************************************************************)
BootPages == { pg \in Pages : pg.elems \subseteq { "e1" } }

BootCounterPages == { cp \in CounterPages : Len(cp.texts) < 3 }

\* the state before DOMContentLoaded on a page whose features are among fs
BeforeInit(fs) ==
  /\ dom = InitDom("false", FormDefaults)
  /\ InitObservers
  /\ features \in fs
  /\ boot = NotStarted
  /\ page \in BootPages
  /\ phase = "parsing"
  /\ loadListener = FALSE
  /\ loadingHidden = FALSE
  /\ revealed = {}
  /\ observerCreated = FALSE
  /\ observed = {}
  /\ timers = {}
  /\ scheduled = [e \in RevealElems |-> 0]
  /\ waited = [e \in RevealElems |-> 0]
  /\ cpage \in BootCounterPages
  /\ cs = unsetCounters(cpage)
  /\ clock = 0
  /\ ThemeIdle
  /\ ScrollIdle
  /\ ServerIdle

InitBoot == BeforeInit(Features)

\* DOMContentLoaded: app.init, every setup function it reaches
AppInit ==
  /\ phase = "parsing"
  /\ phase' = "ready"
  /\ LET r == appInit(features, page, cpage)
         reveal == IF "setupScrollAnimations" \in r.called /\ ~stepThrows("setupScrollAnimations", page, cpage)
                     THEN setupScrollAnimations(page)
                   ELSE [revealed |-> {}, observerCreated |-> FALSE, observed |-> {}]
     IN /\ boot' = r
        /\ loadListener' = ("setupLoadingScreen" \in r.called /\ setupLoadingScreen(page))
        /\ revealed' = reveal.revealed
        /\ observerCreated' = reveal.observerCreated
        /\ observed' = reveal.observed
        /\ cs' = IF "setupCounterAnimations" \in r.called
                   THEN setupCounterAnimations(cpage)
                 ELSE cs
  /\ UNCHANGED <<page, loadingHidden, timers, scheduled, waited, cpage, clock, features,
                 uiVars, themeVars, scrollVars, serverVars>>

NextBoot == AppInit

SpecBoot == InitBoot /\ [][NextBoot]_vars

(***************************************************************************)
(* app.init and the counter trigger after it, on pages with every or no    *)
(* optional element.                                                       *)
(***************************************************************************)
AllFeatures ==
  [navbar |-> TRUE, mobileToggle |-> TRUE, navMenu |-> TRUE, themeToggle |-> TRUE,
   themeIcon |-> TRUE, contactForm |-> TRUE, submitBtn |-> TRUE, successModal |-> TRUE]

InitTrigger == BeforeInit({ NoFeatures, AllFeatures })

NextTrigger == AppInit \/ StatsIntersect \/ CounterTick \/ TriggerFire

SpecTrigger == InitTrigger /\ [][NextTrigger]_vars

\* init runs, time passes and due timers fire
SpecTriggerFair ==
  /\ SpecTrigger
  /\ WF_vars(AppInit) /\ WF_vars(CounterTick) /\ WF_vars(TriggerFire)

(***************************************************************************)
(* Theme state machine: a page with #theme-toggle and .theme-icon, from    *)
(* the end of app.init.                                                    *)
(***************************************************************************)
MaxClicks == 3

InitTheme ==
  /\ dom = InitDom("false", FormDefaults)
  /\ InitObservers
  /\ RevealIdle
  /\ CounterIdle
  /\ BootIdle
  /\ ScrollIdle
  /\ ServerIdle
  /\ \E stored \in StoredThemes : th = setupThemeToggle(themeLoaded(stored))

\* a click on #theme-toggle
ThemeClick ==
  /\ th.clicks < MaxClicks
  /\ th' = themeClick(th)
  /\ UNCHANGED <<uiVars, revealVars, counterVars, bootVars, scrollVars, serverVars>>

\* 50 ms pass while a pulse is not yet due
ThemeTick ==
  /\ \E i \in DOMAIN th.pulses : th.pulses[i] > 0
  /\ th' = [th EXCEPT !.pulses = [i \in DOMAIN @ |-> IF @[i] > 0 THEN @[i] - 50 ELSE 0]]
  /\ UNCHANGED <<uiVars, revealVars, counterVars, bootVars, scrollVars, serverVars>>

\* the oldest pulse is due and its callback runs
ThemeTimerFire ==
  /\ th.pulses # << >>
  /\ Head(th.pulses) = 0
  /\ th' = themePulse([th EXCEPT !.pulses = Tail(@)])
  /\ UNCHANGED <<uiVars, revealVars, counterVars, bootVars, scrollVars, serverVars>>

NextTheme == ThemeClick \/ ThemeTick \/ ThemeTimerFire

SpecTheme == InitTheme /\ [][NextTheme]_vars

(***************************************************************************)
(* Scroll state machine: a page with the navbar, loaded at any offset,     *)
(* from the end of app.init.                                               *)
(***************************************************************************)
MaxScrolls == 4

InitScroll ==
  /\ dom = InitDom("false", FormDefaults)
  /\ InitObservers
  /\ RevealIdle
  /\ CounterIdle
  /\ BootIdle
  /\ ThemeIdle
  /\ \E y \in Offsets : sc = navLoaded(y)
  /\ ServerIdle

\* the page is scrolled to another offset; a scroll event becomes due
ScrollTo ==
  /\ sc.nextId <= MaxScrolls
  /\ \E y \in Offsets \ { sc.scrollY } :
       sc' = [sc EXCEPT !.scrollY = y, !.eventDue = TRUE]
  /\ UNCHANGED <<uiVars, revealVars, counterVars, bootVars, themeVars, serverVars>>

\* the scroll event is delivered to the listener
ScrollEvent ==
  /\ sc.eventDue
  /\ sc' = scrollListener(sc)
  /\ UNCHANGED <<uiVars, revealVars, counterVars, bootVars, themeVars, serverVars>>

\* 10 ms pass without a scroll event
ScrollQuiet ==
  /\ \E t \in sc.pending : t.remaining > 0
  /\ sc' = [sc EXCEPT !.pending = { [id |-> t.id, remaining |-> 0] : t \in @ }]
  /\ UNCHANGED <<uiVars, revealVars, counterVars, bootVars, themeVars, serverVars>>

\* a due debounce timer runs handleScroll
ScrollTimerFire ==
  /\ \E t \in sc.pending :
       /\ t.remaining = 0
       /\ sc' = handleScroll([sc EXCEPT !.pending = @ \ {t}])
  /\ UNCHANGED <<uiVars, revealVars, counterVars, bootVars, themeVars, serverVars>>

NextScroll == ScrollTo \/ ScrollEvent \/ ScrollQuiet \/ ScrollTimerFire

SpecScroll == InitScroll /\ [][NextScroll]_vars

\* pending scroll events are delivered, time passes, due timers fire
SpecScrollFair ==
  /\ SpecScroll
  /\ WF_vars(ScrollEvent) /\ WF_vars(ScrollQuiet) /\ WF_vars(ScrollTimerFire)


(***************************************************************************)
(* Navigation state machine: the scroll effect together with the clicks    *)
(* and keys that open and close the mobile menu.                           *)
(***************************************************************************)
InitNav ==
  /\ dom = InitDom("false", FormDefaults)
  /\ InitObservers
  /\ RevealIdle
  /\ CounterIdle
  /\ BootIdle
  /\ ThemeIdle
  /\ ServerIdle
  /\ \E y \in Offsets : sc = navLoaded(y)

NextNav == Click \/ Keydown \/ ScrollTo \/ ScrollEvent \/ ScrollQuiet \/ ScrollTimerFire

SpecNav == InitNav /\ [][NextNav]_vars

(***************************************************************************)
(* Server state machine: one request, any of the bodies and paths below,   *)
(* answered by the middleware chain.                                       *)
(***************************************************************************)
NameJs == { Undefined, Num(0), Num(12) } \cup { Str(s) : s \in NameValues }

EmailJs == { Undefined, Num(5), Arr(GoodEmail) } \cup { Str(s) : s \in EmailValues }

BusinessJs == { Undefined, Num(1) } \cup { Str(s) : s \in BusinessValues }

MessageJs == { Undefined, Num(3) } \cup { Str(s) : s \in MessageValues }

ContactBodies == [name : NameJs, email : EmailJs, business : BusinessJs, message : MessageJs]

\* JSON.stringify(data) on the client, express.json() on the server: every
\* form value arrives as a string
clientBody(f) ==
  [name |-> Str(f.name), email |-> Str(f.email), business |-> Str(f.business),
   message |-> Str(f.message)]

Paths ==
  GetRoutes \cup
  { <<"contact">>, <<"about">>, <<"api">>, <<"api", "">>, <<"api", "x">>, <<"apix", "y">>,
    <<"assets">>, <<"assets", "x.png">>, <<"public", "x.png">>, <<"work", "x">> }

Requests ==
  { [method |-> "POST", path |-> <<"contact">>, parsed |-> TRUE, static |-> FALSE, body |-> b] :
      b \in ContactBodies }
  \cup [method : { "GET", "POST" }, path : Paths, parsed : { TRUE }, static : { FALSE },
        body : { NoBody }]
  \cup [method : { "GET" }, path : Paths, parsed : { TRUE }, static : { TRUE }, body : { NoBody }]
  \cup [method : { "POST" }, path : Paths, parsed : { FALSE }, static : { FALSE },
        body : { NoBody }]

InitServer ==
  /\ dom = InitDom("false", FormDefaults)
  /\ InitObservers
  /\ RevealIdle
  /\ CounterIdle
  /\ BootIdle
  /\ ThemeIdle
  /\ ScrollIdle
  /\ \E r \in Requests : srv = [req |-> r, resp |-> NoReply, done |-> FALSE]

\* the request passes through the middleware chain and is answered
Handle ==
  /\ ~srv.done
  /\ srv.req.method # "none"
  /\ srv' = [srv EXCEPT !.resp = app(srv.req), !.done = TRUE]
  /\ UNCHANGED <<uiVars, revealVars, counterVars, bootVars, themeVars, scrollVars>>

NextServer == Handle

SpecServer == InitServer /\ [][NextServer]_vars

TypeOK ==
  /\ dom.overflow \in { "", "hidden" }
  /\ dom.fields \in AllForms
  /\ posts \in 0..MaxSubmits
  /\ Len(inflight) <= posts

(***************************************************************************)
(* Properties                                                              *)
(***************************************************************************)
IsSuccess(resp) == resp.kind = "http" /\ resp.json /\ resp.success

IsAppFailure(resp) == resp.kind = "http" /\ resp.json /\ ~resp.success

IsTransportFailure(resp) == resp.kind = "reject" \/ (resp.kind = "http" /\ ~resp.json)

GenericMessages ==
  { "Something went wrong", "Failed to send message. Please try again." }

\* C1: in every reachable state, if the mobile menu is open then page scroll
\* is locked (body overflow is 'hidden').
C1_MenuOpenImpliesScrollLocked == dom.menuActive => dom.overflow = "hidden"

\* The menu is open again after a successful submission's modal was closed.
C1_Witness ==
  /\ dom.menuActive
  /\ dom.overflow = "hidden"
  /\ successSeen
  /\ ~dom.modalActive
  /\ lastEvent.name = "click" /\ lastEvent.target = "mobileToggle"

\* C2: after a response whose JSON has success === true has been handled, the
\* modal is open, page scroll is locked and every form field is empty.
C2_SuccessOpensModalAndResets ==
  (lastEvent.name = "complete" /\ IsSuccess(lastEvent.resp)) =>
    /\ dom.modalActive
    /\ dom.overflow = "hidden"
    /\ \A f \in DOMAIN dom.fields : dom.fields[f] = Empty

\* A success handled while the modal was closed and scroll unlocked.
C2_Witness ==
  /\ lastEvent.name = "complete" /\ IsSuccess(lastEvent.resp)
  /\ ~lastEvent.was.modalActive /\ lastEvent.was.overflow = ""
  /\ dom.modalActive /\ dom.overflow = "hidden" /\ dom.fields = FormDefaults

\* C3: handling a response {success:false, error:X} leaves the modal state as
\* it was and makes the displayed error list exactly [X]; without error text
\* the list is one generic fallback message.
C3_AppFailureShowsError ==
  (lastEvent.name = "complete" /\ IsAppFailure(lastEvent.resp)) =>
    /\ dom.modalActive = lastEvent.was.modalActive
    /\ IF lastEvent.resp.error # ""
         THEN dom.formErrors = <<lastEvent.resp.error>>
         ELSE Len(dom.formErrors) = 1 /\ dom.formErrors[1] \in GenericMessages

\* {success:false, error:"X"} handled with the modal closed.
C3_Witness ==
  /\ lastEvent.name = "complete" /\ IsAppFailure(lastEvent.resp)
  /\ lastEvent.resp.error = "X"
  /\ ~lastEvent.was.modalActive /\ ~dom.modalActive
  /\ dom.formErrors = <<"X">>

\* C4: once every validated submission has completed, the submit control is
\* enabled and its content is the content it had when idle before any
\* submission started, for every sequence of submit events and responses.
C4_SubmitControlRestored ==
  (posts > 0 /\ inflight = << >>) =>
    /\ ~dom.submitDisabled
    /\ dom.submitContent = OriginalContent

\* C5: the number of POSTs issued equals the number of submit events whose
\* data passed validation (none for a failing one, one for a passing one, no
\* retry after a failure).
C5_OnePostPerValidSubmit == posts = passedEvents

\* One rejected submit event, one passing one whose request failed, nothing
\* pending and still a single POST.
C5_Witness ==
  /\ submitEvents = 2 /\ passedEvents = 1 /\ posts = 1
  /\ inflight = << >>
  /\ lastEvent.name = "complete" /\ ~IsSuccess(lastEvent.resp)

\* The error list the validation rules call for: one entry per violated rule
\* in the order name, email, business, message, where business is violated
\* only when present and shorter than 2 characters.
RuleViolations(data) ==
  (IF Len(data.name) < 2 THEN <<NameError>> ELSE << >>)
  \o (IF ~emailRegexTest(data.email) THEN <<EmailError>> ELSE << >>)
  \o (IF data.business # Empty /\ Len(data.business) < 2 THEN <<BusinessError>> ELSE << >>)
  \o (IF Len(data.message) < 10 THEN <<MessageError>> ELSE << >>)

Shows(errors, e) == \E i \in DOMAIN errors : errors[i] = e

\* C6: validateForm returns exactly one entry per violated rule, in the
\* order name, email, business, message, and the empty list iff no rule is
\* violated (name >= 2 chars, email matches, message >= 10 chars).
C6_ValidateCollectsEveryViolation ==
  lastEvent.name = "submit" => dom.formErrors = RuleViolations(dom.fields)

\* C7: the business field is optional; a business error is produced only
\* when business is present and shorter than 2 characters.
C7_BusinessOptional ==
  lastEvent.name = "submit" =>
    (Shows(dom.formErrors, BusinessError)
       <=> (dom.fields.business # Empty /\ Len(dom.fields.business) < 2))

\* C8: a transport or parse failure of the POST is caught: the error list is
\* the exception's message (or a generic fallback), the modal state and the
\* form fields are left as they were, and no exception escapes the handler.
C8_TransportFailureCaught ==
  [][(lastEvent'.name = "complete" /\ IsTransportFailure(lastEvent'.resp)) =>
       /\ dom'.modalActive = dom.modalActive
       /\ dom'.fields = dom.fields
       /\ ~unhandled'
       /\ Len(dom'.formErrors) = 1
       /\ IF lastEvent'.resp.kind = "http"
            THEN dom'.formErrors[1] = ParseErrorMessage
            ELSE IF lastEvent'.resp.msg # ""
                   THEN dom'.formErrors[1] = lastEvent'.resp.msg
                   ELSE dom'.formErrors[1] \in GenericMessages]_vars

\* A rejected fetch without a message, handled with the modal closed and the
\* form still filled in.
C8_Witness ==
  /\ lastEvent.name = "complete" /\ lastEvent.resp = Reject("")
  /\ ~dom.modalActive
  /\ dom.fields # FormDefaults
  /\ dom.formErrors = <<"Failed to send message. Please try again.">>
  /\ ~unhandled

\* C9: the modal is open only after a response with success === true was
\* processed, and the only event that opens it is the handling of such a
\* response.
C9_ModalOpensOnlyOnSuccess ==
  /\ dom.modalActive => successSeen
  /\ (dom.modalActive /\ ~lastEvent.was.modalActive) =>
       (lastEvent.name = "complete" /\ IsSuccess(lastEvent.resp))

\* The modal is still open after a later failed submission and a menu click.
C9_Witness ==
  /\ dom.modalActive
  /\ successSeen
  /\ Len(dom.formErrors) = 1
  /\ lastEvent.name = "click" /\ lastEvent.target = "mobileToggle"

ModalClosePath(e) ==
  \/ e.name = "click" /\ e.target \in { "modalClose", "modalOk", "successModal" }
  \/ e.name = "keydown" /\ e.target = "Escape"

\* C10: each close path taken while the modal is open (close button, OK
\* button, backdrop click, Escape) leaves the modal closed and page scroll
\* unlocked; a click inside the modal content leaves the modal open.
C10_ModalClosePaths ==
  /\ (lastEvent.was.modalActive /\ ModalClosePath(lastEvent)) =>
       (~dom.modalActive /\ dom.overflow = "")
  /\ (lastEvent.was.modalActive /\ lastEvent.name = "click"
        /\ lastEvent.target = "modalContent") => dom.modalActive

\* The OK button closes the modal that was open together with the menu.
C10_Witness ==
  /\ lastEvent.was.modalActive /\ lastEvent.was.menuActive
  /\ lastEvent.name = "click" /\ lastEvent.target = "modalOk"
  /\ ~dom.modalActive /\ dom.overflow = ""

\* What the modal's own listeners do on one of its close paths (without the
\* listeners of other modules on the same event).
ModalCloseEffect(d, path) ==
  IF path = "Escape" THEN modalKeydown(d, path)
  ELSE modalClick(targetListeners(d, path), path)

\* C11: invoking any modal close path while the modal is closed is a no-op:
\* the modal stays closed and no other UI state changes, in particular the
\* scroll lock held by an open menu.
C11_CloseModalNoOpWhenClosed ==
  ~dom.modalActive =>
    \A path \in { "modalClose", "modalOk", "successModal", "Escape" } :
      ModalCloseEffect(dom, path) = dom

MenuCloseTrigger(e) ==
  \/ e.name = "click" /\ (e.target \in { "mobileToggle", "navLink" } \/ ~navbarContains(e.target))
  \/ e.name = "keydown" /\ e.target = "Escape"

\* C12: closing the open menu through any of its four triggers (toggle
\* click, nav-link click, outside click, Escape) leaves the menu closed, the
\* scroll lock released and aria-expanded equal to false.
C12_MenuCloseTriggers ==
  (lastEvent.was.menuActive /\ MenuCloseTrigger(lastEvent)) =>
    /\ ~dom.menuActive /\ ~dom.toggleActive
    /\ dom.overflow = ""
    /\ dom.ariaExpanded = "false"

\* Escape closes the open menu.
C12_Witness ==
  /\ lastEvent.was.menuActive /\ lastEvent.was.overflow = "hidden"
  /\ lastEvent.name = "keydown" /\ lastEvent.target = "Escape"
  /\ ~dom.menuActive /\ dom.overflow = "" /\ dom.ariaExpanded = "false"

\* C13: while the menu is open, a click on any target outside both the
\* toggle control and the menu panel (targets elsewhere inside the navbar
\* included) closes the menu and unlocks scroll.
C13_OutsideClickClosesMenu ==
  (lastEvent.was.menuActive /\ lastEvent.name = "click"
     /\ lastEvent.target \notin { "mobileToggle", "navLink" }) =>
    (~dom.menuActive /\ dom.overflow = "")

\* C14: a menu-close trigger (nav-link click, outside click, Escape) fired
\* while the menu is closed leaves the menu state and the scroll lock
\* unchanged, also when the lock is held by the open modal.  (Clicks on the
\* modal's own close controls and Escape with the modal open close the modal
\* and are left out.)
C14_MenuCloseHarmlessWhenClosed ==
  (/\ ~lastEvent.was.menuActive
   /\ \/ lastEvent.name = "click" /\ lastEvent.target \in { "navLink", "page", "modalContent" }
      \/ lastEvent.name = "keydown" /\ lastEvent.target = "Escape"
           /\ ~lastEvent.was.modalActive) =>
    (~dom.menuActive /\ dom.overflow = lastEvent.was.overflow)

NonHero == { e \in RevealElems : ~inHero(e) }

\* C15: for every non-hero reveal element, under arbitrary intersection
\* events: it is never un-revealed (so it becomes revealed at most once), the
\* callback sets at most one reveal timer for it, and once it has intersected
\* it is no longer observed.
C15_RevealAtMostOnce ==
  [][/\ revealed \subseteq revealed'
     /\ \A e \in NonHero :
          /\ scheduled'[e] <= 1
          /\ scheduled'[e] = 1 => e \notin observed']_vars

\* Both non-hero elements intersected once and are revealed; nothing is
\* observed any more.
C15_Witness ==
  /\ ~page.reducedMotion
  /\ NonHero \subseteq revealed
  /\ \A e \in NonHero : scheduled[e] = 1
  /\ observed = {}

\* C16: with reduced motion active, once setupScrollAnimations has run every
\* reveal-flagged element (hero or not) is revealed and no observer exists or
\* observes anything.
C16_ReducedMotionBypass ==
  (page.reducedMotion /\ phase # "parsing") =>
    /\ page.elems \subseteq revealed
    /\ ~observerCreated
    /\ observed = {}

\* Right after app.init on a reduced-motion page with all four elements.
C16_Witness ==
  /\ page.reducedMotion /\ page.elems = RevealElems
  /\ phase = "ready"
  /\ revealed = RevealElems
  /\ ~observerCreated

\* C17: without reduced motion, a hero reveal element is never observed by
\* the scroll observer and, on every page that has such elements, is revealed
\* by the staggered load-time reveal once the load event and its timers have
\* run.
C17_HeroRevealedAfterLoad ==
  ~page.reducedMotion =>
    \A e \in page.elems :
      inHero(e) =>
        /\ e \notin observed
        /\ (phase = "loaded" /\ timers = {}) => e \in revealed

ExpectedDelayMs(e) == IF dataDelay(e) = NoDelay THEN 0 ELSE dataDelay(e) * 100

RevealedOnlyAfterDelay ==
  \A e \in NonHero :
    e \in revealed => (scheduled[e] >= 1 /\ waited[e] >= ExpectedDelayMs(e))

EventuallyRevealed == \A e \in NonHero : (scheduled[e] >= 1) ~> (e \in revealed)

\* C18 as stated: a non-hero element is revealed only after its first
\* intersection and after its delay has elapsed, and once it has intersected
\* it is eventually revealed.
C18_RevealAfterIntersectionAndDelay == []RevealedOnlyAfterDelay /\ EventuallyRevealed

\* C18 amended: the same in a session without reduced motion.
C18_RevealAfterDelayNoReducedMotion ==
  /\ [](~page.reducedMotion => RevealedOnlyAfterDelay)
  /\ EventuallyRevealed

\* e2 (data-delay 0.2) revealed 200 ms after its intersection.
C18_Witness ==
  /\ ~page.reducedMotion
  /\ "e2" \in revealed
  /\ scheduled["e2"] = 1
  /\ waited["e2"] = 200

Started == { i \in DOMAIN cs.counters : cs.counters[i].status \in { "animating", "settled" } }

\* C19: the body of animateCounters executes at most once, whatever the
\* stats-section visibility events and timer firings, and all counters it
\* started share the same trigger instant.
C19_AnimateCountersAtMostOnce ==
  /\ cs.runs <= 1
  /\ cs.runs = 1 <=> cs.hasAnimated
  /\ \A i, j \in Started : cs.counters[i].startTime = cs.counters[j].startTime

\* The observer path has run the animation to its end: three counters were
\* started together half a second or more after the section became visible.
C19_Witness ==
  /\ cpage.statsSection /\ cpage.hasIO
  /\ cs.runs = 1
  /\ ~cs.observing /\ cs.trigger = {}
  /\ Cardinality(Started) = 3
  /\ \A i \in Started : cs.counters[i].status = "settled" /\ cs.counters[i].startTime >= TriggerDelay

\* the number between prefix and suffix in a displayed text, NaN if the text
\* has no such shape
numericShown(text, prefix, suffix) ==
  LET lo == Len(prefix) + 1
      hi == Len(text) - Len(suffix)
  IN IF /\ lo <= hi
        /\ SubSeq(text, 1, lo - 1) = prefix
        /\ SubSeq(text, hi + 1, Len(text)) = suffix
        /\ \A k \in lo..hi : isDigit(text[k])
       THEN parseIntDigits(SubSeq(text, lo, hi))
     ELSE NaN

\* floor(target * easeOutQuart(min(elapsed / 2000, 1))), as target minus the
\* ceiling of target * (1 - progress)^4
ExpectedDisplay(target, elapsed) ==
  LET left == IF elapsed >= Duration THEN 0 ELSE (Duration - elapsed) \div 100
      whole == quart(Duration \div 100)
  IN target - ((target * quart(left) + whole - 1) \div whole)

IsRange(c) == includes(c.finalText, RangeText) /\ c.target = 14

\* what the last frame of counter c displays: the eased value, 0 on the
\* first frame, not below the frame before, not above the target
FrameShowsEasedValue(c) ==
  LET v == numericShown(c.text, c.prefix, c.suffix) IN
    /\ v = ExpectedDisplay(c.target, c.elapsed)
    /\ v <= c.target
    /\ c.frames = 1 => v = 0
    /\ c.frames > 1 => numericShown(c.before, c.prefix, c.suffix) <= v

\* C20 (as stated): for every counter with a parsed target, the numeric value
\* displayed over successive frames starts at 0, is non-decreasing as elapsed
\* time grows, never exceeds the target, and is
\* floor(target * easeOutQuart(min(elapsed / 2000, 1))).
C20_DisplayedValueEased ==
  \A i \in Started : FrameShowsEasedValue(cs.counters[i])

\* C20 (amended): the same for every counter with a parsed target other than
\* the range counter "7-14", which displays the literal "7-14" on every frame.
C20_DisplayedValueEasedExceptRange ==
  \A i \in Started :
    IF IsRange(cs.counters[i]) THEN cs.counters[i].text = RangeText
    ELSE FrameShowsEasedValue(cs.counters[i])

\* Mid-animation: a counter shows more than on its frame before and less
\* than its target, next to the range counter.
C20_Witness ==
  /\ \E i \in Started :
       LET c == cs.counters[i]
           v == numericShown(c.text, c.prefix, c.suffix) IN
         /\ ~IsRange(c)
         /\ c.status = "animating" /\ c.frames > 1
         /\ 0 < numericShown(c.before, c.prefix, c.suffix)
         /\ numericShown(c.before, c.prefix, c.suffix) < v
         /\ v < c.target
  /\ \E j \in Started : IsRange(cs.counters[j]) /\ cs.counters[j].status = "animating"

CounterIndices == 1..3

\* C21: every counter animation that starts eventually completes; a completed
\* counter was completed by a frame at 2000 ms or more, shows its finalText
\* verbatim, has no frame callback pending, and is not changed afterwards.
C21_CounterCompletes ==
  /\ \A i \in CounterIndices :
       (i \in DOMAIN cs.counters /\ cs.counters[i].status = "animating")
         ~> (i \in DOMAIN cs.counters /\ cs.counters[i].status = "settled")
  /\ [](\A i \in DOMAIN cs.counters :
          cs.counters[i].status = "settled" =>
            /\ cs.counters[i].text = cs.counters[i].finalText
            /\ cs.counters[i].elapsed >= Duration
            /\ i \notin Animating)
  /\ [][\A i \in DOMAIN cs.counters :
          cs.counters[i].status = "settled" => cs'.counters[i] = cs.counters[i]]_vars

\* A counter went through intermediate frames and was completed by a late
\* frame; its text is the trimmed markup text.
C21_Witness ==
  \E i \in DOMAIN cs.counters :
    /\ cs.counters[i].status = "settled"
    /\ cs.counters[i].frames = 3
    /\ cs.counters[i].elapsed > Duration
    /\ cs.counters[i].text = <<"5", "0", "+">>
    /\ cpage.texts[i] # cs.counters[i].text

\* what animateCounters is to make of the single counter of a page whose
\* text, trimmed, is ft
ParsedAs(target, prefix, suffix) ==
  /\ cs.counters[1].target = target
  /\ cs.counters[1].prefix = prefix
  /\ cs.counters[1].suffix = suffix
  /\ cs.counters[1].status = "animating"

\* C22: counter parsing follows the priority 'contains "20"', then 'contains
\* "7-14"', then 'contains "100"', then strip non-digits and parse; "100%"
\* gives 100 with suffix %, "20+" gives 20 with suffix +, "7-14" gives 14 with
\* static prefix "7-", and a text without digits is skipped, its text
\* unchanged and no frame scheduled.
C22_ParsePriority ==
  (cs.runs = 1 /\ Len(cpage.texts) = 1) =>
    LET ft == trim(cpage.texts[1])
        has20 == includes(ft, <<"2", "0">>)
        hasRange == includes(ft, RangeText)
        has100 == includes(ft, <<"1", "0", "0">>)
    IN /\ has20 => ParsedAs(20, << >>, <<"+">>)
       /\ (~has20 /\ hasRange) => ParsedAs(14, <<"7", "-">>, << >>)
       /\ (~has20 /\ ~hasRange /\ has100) => ParsedAs(100, << >>, <<"%">>)
       /\ (~has20 /\ ~hasRange /\ ~has100 /\ digitsOnly(ft) # << >>) =>
            /\ cs.counters[1].target = parseIntDigits(digitsOnly(ft))
            /\ cs.counters[1].status = "animating"
       /\ digitsOnly(ft) = << >> =>
            /\ cs.counters[1].status = "skipped"
            /\ cs.counters[1].text = cpage.texts[1]
            /\ Animating = {}

\* A text holding both "7-14" and "20" was parsed as 20 with suffix "+".
C22_Witness ==
  /\ cs.runs = 1 /\ Len(cpage.texts) = 1
  /\ includes(cpage.texts[1], RangeText)
  /\ includes(cpage.texts[1], <<"1", "0", "0">>)
  /\ includes(cpage.texts[1], <<"2", "0">>)
  /\ ParsedAs(20, << >>, <<"+">>)

RangeCounters == { i \in Started : cs.counters[i].finalText = RangeText }

\* C23 (as stated): for a range counter whose finalText is "7-14", the text
\* shown on intermediate frames is "7-" followed by the current eased value,
\* rising from 0 toward 14.
C23_RangeEndpointAnimates ==
  \A i \in RangeCounters :
    cs.counters[i].status = "animating" =>
      cs.counters[i].text =
        <<"7", "-">> \o numberToString(ExpectedDisplay(14, cs.counters[i].elapsed))

\* C23 (amended): a range counter whose finalText is "7-14" shows the literal
\* "7-14" on every frame of its run, the first included; its endpoint does not
\* animate.
C23_RangeTextStatic ==
  \A i \in RangeCounters :
    /\ cs.counters[i].text = RangeText
    /\ cs.counters[i].before = RangeText
    /\ cs.counters[i].prefix = <<"7", "-">>
    /\ cs.counters[i].target = 14

\* The range counter is mid-run, where the eased endpoint would be 13.
C23_Witness ==
  \E i \in RangeCounters :
    /\ cs.counters[i].status = "animating"
    /\ cs.counters[i].frames > 1
    /\ ExpectedDisplay(14, cs.counters[i].elapsed) = 13
    /\ cs.counters[i].text = RangeText

\* C24: when IntersectionObserver is absent and stat-number elements exist,
\* animateCounters is eventually invoked after app.init by the flat delayed
\* timer.
C24_FallbackAnimatesWithoutObserver ==
  []((~cpage.hasIO /\ cpage.texts # << >>) => <>(cs.runs = 1))

\* the feature modules of a page and whether the page has their elements
FeatureModules ==
  { "setupLoadingScreen", "setupNavigation", "setupThemeToggle", "setupScrollAnimations",
    "setupContactForm", "setupModalHandlers", "setupCounterAnimations" }

ElementsPresent(m) ==
  CASE m = "setupLoadingScreen" -> page.loadingScreen
    [] m = "setupNavigation" -> features.navbar /\ features.mobileToggle /\ features.navMenu
    [] m = "setupThemeToggle" -> features.themeToggle /\ features.themeIcon
    [] m = "setupScrollAnimations" -> page.elems # {}
    [] m = "setupContactForm" -> features.contactForm /\ features.submitBtn
    [] m = "setupModalHandlers" -> features.successModal
    [] m = "setupCounterAnimations" -> cpage.texts # << >>

\* C25: for every combination of absent feature elements app.init completes
\* without throwing, a module whose elements are absent registers no
\* behaviour, and every module whose elements are present is initialized.
C25_InitDegradesGracefully ==
  boot.result # "none" =>
    /\ boot.result = "ready"
    /\ \A m \in FeatureModules : m \in boot.registered <=> ElementsPresent(m)

\* the initial theme flipped n times
FlippedTheme(initial, n) ==
  IF n % 2 = 0 THEN initial
  ELSE IF initial = "dark" THEN "light" ELSE "dark"

\* a click changes neither data-theme nor the persisted value nor the icon,
\* and arms one midpoint timer
ThemeClickDefers ==
  th'.clicks # th.clicks =>
    /\ th'.dataTheme = th.dataTheme
    /\ th'.stored = th.stored
    /\ th'.icon = th.icon
    /\ Len(th'.pulses) = Len(th.pulses) + 1

\* C26 (as stated): a click defers its side effects to the midpoint timer,
\* and once all pending midpoint timers have fired, data-theme, the persisted
\* 'theme' value and the in-memory theme all equal the initial theme flipped
\* n times, for any number n of clicks, and the icon is the sun iff that
\* theme is dark.
C26_ThemeConverges ==
  /\ [][ThemeClickDefers]_vars
  /\ [](th.pulses = << >> =>
          LET e == FlippedTheme(th.initial, th.clicks) IN
            /\ th.theme = e
            /\ th.dataTheme = e
            /\ th.stored = e
            /\ th.icon = "sun" <=> e = "dark")

\* C26 (amended): the same, the persisted value from the first click on
\* (before it, nothing has been written to storage).
C26_ThemeConvergesOnceClicked ==
  /\ [][ThemeClickDefers]_vars
  /\ [](th.pulses = << >> =>
          LET e == FlippedTheme(th.initial, th.clicks) IN
            /\ th.theme = e
            /\ th.dataTheme = e
            /\ th.clicks > 0 => th.stored = e
            /\ th.icon = "sun" <=> e = "dark")

\* Three clicks, some of them during an earlier pulse, and every timer has
\* fired: a page that started dark is light and shows the moon.
C26_Witness ==
  /\ th.clicks = 3
  /\ th.overlapped
  /\ th.pulses = << >>
  /\ th.initial = "dark" /\ th.theme = "light" /\ th.dataTheme = "light"
  /\ th.stored = "light" /\ th.icon = "moon"

\* a scroll event leaves exactly the timer it armed; a timer that fires was
\* armed by the last scroll event, after at least one event, and leaves none
DebounceStep ==
  /\ sc'.nextId # sc.nextId =>
       sc'.pending = { [id |-> sc'.scrollTimeout, remaining |-> DebounceDelay] }
  /\ Cardinality(sc'.pending) < Cardinality(sc.pending) =>
       /\ sc.burst >= 1
       /\ sc.pending = { [id |-> sc.scrollTimeout, remaining |-> 0] }
       /\ sc'.pending = {}
       /\ sc'.burst = 0

\* C27: at most one recompute timer is pending at any time, each scroll
\* event cancels the pending timer and schedules a new one, and a burst of
\* scroll events runs handleScroll exactly once, after its last event.
C27_ScrollDebounced ==
  /\ [](Cardinality(sc.pending) <= 1)
  /\ [][DebounceStep]_vars
  /\ [](sc.burst > 0 => <>(sc.burst = 0))

\* Three scroll events and a single run of handleScroll, after the last one.
C27_Witness ==
  /\ sc.nextId = 4
  /\ sc.runs = 1
  /\ sc.burst = 0
  /\ sc.pending = {}
  /\ ~sc.eventDue
  /\ sc.lastScrollY = sc.scrollY

\* C28: immediately after every scroll recompute the navbar has the
\* 'scrolled' class iff the current vertical offset exceeds 50, whatever the
\* class and the offsets were before.
C28_ScrolledIffPastThreshold ==
  [][Cardinality(sc'.pending) < Cardinality(sc.pending) =>
       (sc'.scrolled <=> sc'.scrollY > 50)]_vars

\* A recompute at exactly 50 px removed the class an earlier recompute had
\* set.
C28_Witness ==
  /\ sc.runs = 2
  /\ sc.burst = 0 /\ sc.pending = {} /\ ~sc.eventDue
  /\ sc.scrollY = 50 /\ sc.lastScrollY = 50
  /\ sc.wasScrolled /\ ~sc.scrolled

\* C29: the submit control is disabled for as long as a validated
\* submission's request is pending.
C29_DisabledWhilePending == inflight # << >> => dom.submitDisabled

\* C30: after any submit attempt the displayed errors are those of the most
\* recent attempt only: the validation errors of a submit event that was just
\* handled, nothing after an attempt that succeeded, a single message after
\* one that failed.
C30_ErrorsOfLastAttemptOnly ==
  /\ lastEvent.name = "submit" => dom.formErrors = validateForm(dom.fields)
  /\ (lastEvent.name = "complete" /\ IsSuccess(lastEvent.resp)) => dom.formErrors = << >>
  /\ (lastEvent.name = "complete" /\ ~IsSuccess(lastEvent.resp)) => Len(dom.formErrors) = 1

(***************************************************************************)
(* Server: POST /contact                                                   *)
(***************************************************************************)
ContactAnswered ==
  /\ srv.done
  /\ srv.req.method = "POST"
  /\ srv.req.path = <<"contact">>

\* a required field that is absent or empty (for a number: zero)
MissingRequired(b) ==
  \E v \in { b.name, b.email, b.message } :
    v.type = "undefined" \/ v.val = Empty \/ v = Num(0)

\* a value the handler applies a string method to is not a string
NonStringField(b) ==
  \/ \E v \in { b.name, b.email, b.message } : v.type # "string"
  \/ b.business.type \in { "number", "array" } /\ b.business # Num(0)

Failure(st) == srv.resp.status = st /\ srv.resp.kind = "json" /\ srv.resp.success = "false"

\* C31: POST /contact answers 200 with success:true exactly when name, email
\* and message are non-empty and the email matches local@domain.tld (and no
\* exception is raised); a missing required field gives 400 success:false
\* even when the email is malformed too, a malformed email gives 400
\* success:false, an exception while handling (a non-string field, an
\* unparseable body) gives 500 success:false; every non-2xx answer carries
\* success:false.
C31_ContactResponses ==
  ContactAnswered =>
    LET b == srv.req.body
        ok == srv.resp.status = 200 /\ srv.resp.kind = "json" /\ srv.resp.success = "true"
    IN /\ srv.resp.status \in { 200, 400, 500 }
       /\ srv.resp.status # 200 => srv.resp.success = "false"
       /\ ~srv.req.parsed => Failure(500)
       /\ srv.req.parsed =>
            /\ ok <=> (~MissingRequired(b) /\ emailRegexTest(b.email.val) /\ ~NonStringField(b))
            /\ MissingRequired(b) => Failure(400) /\ srv.resp.error = RequiredFieldsError
            /\ (~MissingRequired(b) /\ ~emailRegexTest(b.email.val))
                 => Failure(400) /\ srv.resp.error = EmailFormatError
            /\ (~MissingRequired(b) /\ emailRegexTest(b.email.val) /\ NonStringField(b))
                 => Failure(500)

\* a body with an empty name and a malformed email was answered (400, for
\* the missing field), and so was a well-formed body (200)
C31_Witness ==
  /\ ContactAnswered
  /\ srv.req.parsed
  /\ srv.req.body.name = Str(Empty)
  /\ srv.req.body.email = Str(<<"a", "b", ".", "c">>)
  /\ srv.req.body.message = Str(Chars(10))
  /\ Failure(400)
  /\ srv.resp.error = RequiredFieldsError

(***************************************************************************)
(* Client: the HTTP status of the response                                 *)
(***************************************************************************)
NonOkResponse(resp) == resp.kind = "http" /\ resp.status \notin 200..299

\* C32: a contact-POST response with a non-2xx status is a failure whatever
\* its body: the listener leaves the modal as it was and shows one error.
C32_NonOkStatusIsFailure ==
  (lastEvent.name = "complete" /\ NonOkResponse(lastEvent.resp)) =>
    /\ dom.modalActive = lastEvent.was.modalActive
    /\ Len(dom.formErrors) = 1

(***************************************************************************)
(* Server: GET fallbacks                                                   *)
(***************************************************************************)
\* a GET that no explicit route and no static file answers
UnmatchedGet ==
  /\ srv.done
  /\ srv.req.method = "GET"
  /\ ~srv.req.static
  /\ srv.req.path \notin GetRoutes

ApiPrefixed(path) == Len(path) >= 2 /\ path[1] = "api"

AssetPrefixed(path) == Len(path) >= 2 /\ path[1] \in { "assets", "public" }

ApiAnswer == srv.resp.status = 404 /\ srv.resp.kind = "json" /\ srv.resp.success = "false"

IndexAnswer == srv.resp = File("index.html")

C34_ModalHoldsScrollLock == dom.modalActive => dom.overflow = "hidden"

(***************************************************************************)
(* Requests in flight                                                      *)
(***************************************************************************)
\* C35: at most one contact POST is unresolved at any time, whatever submit
\* events are delivered while a request is pending.
C35_AtMostOnePending == Len(inflight) <= 1

(***************************************************************************)
(* Client validation against server validation                             *)
(***************************************************************************)
\* the request carries the form f as the client sends it
SentByClient(f) ==
  /\ ContactAnswered
  /\ srv.req.parsed
  /\ srv.req.body = clientBody(f)

ScrollSettled == sc.pending = {} /\ ~sc.eventDue

\* C37: whenever no scroll recompute is pending the navbar has the
\* 'scrolled' class iff the current offset exceeds 50, also right after init
\* on a page loaded at a non-zero offset.
C37_ScrolledAgreesWhenSettled ==
  ScrollSettled => (sc.scrolled <=> sc.scrollY > ScrolledThreshold)

(***************************************************************************)
(* Navbar hiding and the mobile menu                                       *)
(***************************************************************************)
\* C38: the navbar is never translated off-screen while the mobile menu is
\* open, under any interleaving of scroll events, debounce timers and
\* menu-toggle clicks.
C38_NavbarShownWhileMenuOpen == dom.menuActive => sc.transform # "translateY(-100%)"

(***************************************************************************)
(* Form values across a failed submission                                  *)
(***************************************************************************)
\* the step is a submit event stopped by validation, or the completion of a
\* request by an application failure or a transport failure
FailedSubmissionStep ==
  \/ lastEvent'.name = "submit" /\ validateForm(dom.fields) # << >>
  \/ lastEvent'.name = "complete"
       /\ (IsAppFailure(lastEvent'.resp) \/ IsTransportFailure(lastEvent'.resp))

\* C39: a failed submission (validation error, application failure,
\* transport failure) leaves every form field's value unchanged; a submit
\* event or a completion changes the fields only on the success path.
C39_FailurePreservesFields ==
  [][/\ FailedSubmissionStep => dom'.fields = dom.fields
     /\ (lastEvent'.name \in { "submit", "complete" } /\ dom'.fields # dom.fields)
          => (lastEvent'.name = "complete" /\ IsSuccess(lastEvent'.resp))]_vars

\* a request completed with an application failure and the form still holds
\* what was typed
C39_Witness ==
  /\ lastEvent.name = "complete"
  /\ IsAppFailure(lastEvent.resp)
  /\ dom.fields # FormDefaults
  /\ Len(dom.formErrors) = 1

====
